---- MODULE Spec2Model ----
(***************************************************************************)
(* A model of scrapper.py: the JIRA pagination loop (JiraClient), the      *)
(* commit scan (GitRepoAnalyzer), the feature extraction loop              *)
(* (FeatureExtractor) and the orchestration (EffortDatasetBuilder).        *)
(*                                                                         *)
(* Conventions                                                             *)
(*   - Python's None is the empty tuple <<>>, a present value v is <<v>>,  *)
(*     so that an absent duration and a duration of 0 are different.       *)
(*   - A timestamp string '%Y-%m-%dT%H:%M:%S.%f%z' is a record             *)
(*     [hour, tz]: the wall-clock reading in whole hours and the UTC       *)
(*     offset in hours.  strptime turns it into an instant.                *)
(*   - An issue key "<jira_key>-<n>" is the number n.  A commit message is *)
(*     a sequence of tokens: n > 0 is a piece of text the key pattern      *)
(*     matches as key n, 0 is text the pattern does not match.             *)
(*   - A commit object is its position in repo.iter_commits() (1 is the    *)
(*     newest commit).                                                     *)
(***************************************************************************)
EXTENDS Integers, Sequences, FiniteSets, TLC

VARIABLES
    pc,                 \* position of the program
    tracker,            \* the issues matching the query, in the server's order
    steady,             \* TRUE: the server reports the same total on every page
    cap,                \* the most issues the server puts in one page
    max_results,        \* JiraClient.max_results
    start_at,           \* fetch_issues: start_at
    acc,                \* fetch_issues: the local list issues
    requests,           \* every request sent so far: its startAt and whether it succeeded
    last_total,         \* data['total'] of the latest response, None before it
    issues,             \* build_and_save: issues / FeatureExtractor.issues
    repo,               \* the commits of repo.iter_commits(), newest first
    ci,                 \* map_issues_to_commits: number of commits taken so far
    matches,            \* map_issues_to_commits: matches of the commit not yet appended
    issue_commit_map,   \* issue key -> list of commits
    ei,                 \* extract: index of the next issue
    data,               \* extract: the rows so far
    skipped_no_commits, \* extract: skipped_no_commits
    dataset,            \* the value extract returned, None before it
    file,               \* the output file, None while it is not written
    run,                \* which call of build_and_save is running
    first_file,         \* the file the first call wrote
    changelog,          \* argument of get_in_progress_duration
    duration            \* value get_in_progress_duration returned

vars == <<pc, tracker, steady, cap, max_results, start_at, acc, requests,
          last_total, issues, repo, ci, matches, issue_commit_map, ei, data,
          skipped_no_commits, dataset, file, run, first_file, changelog,
          duration>>

----------------------------------------------------------------------------
(* Bounds *)

MaxT == 3          \* hours on the clock
MaxHist == 4       \* histories of a change log with one item each
MaxBusyHist == 2   \* histories of a change log with several items each
MaxItems == 2      \* items of one history
MaxTotal == 4      \* issues on the server / the total it may report
MaxPage == 3       \* page sizes
MaxIssues == 2     \* issues handed to the extractor
MaxCommits == 2    \* commits in the repository

DefaultMaxResults == 1000

----------------------------------------------------------------------------
(* Python values *)

None == <<>>
Some(v) == <<v>>

\* dict.get(key, default) on a key that may be missing
Get(opt, default) == IF opt = None THEN default ELSE opt[1]

Ts(h, z) == [hour |-> h, tz |-> z]

\* datetime.strptime(s, '%Y-%m-%dT%H:%M:%S.%f%z'): an aware datetime, i.e.
\* the instant (in hours UTC) the string denotes
Strptime(ts) == ts.hour - ts.tz

\* (end - start).total_seconds() / 3600
Hours(end, start) == end - start

\* str.lower() on the status names that occur
Lower(s) ==
    CASE s = "In Progress" -> "in progress"
      [] s = "IN PROGRESS" -> "in progress"
      [] s = "Resolved"    -> "resolved"
      [] s = "CLOSED"      -> "closed"
      [] s = "Done"        -> "done"
      [] s = "Fixed"       -> "fixed"
      [] s = "Open"        -> "open"
      [] s = "Reopened"    -> "reopened"
      [] OTHER             -> s

TerminalStatuses == {"done", "resolved", "closed", "fixed"}

----------------------------------------------------------------------------
(* FeatureExtractor.get_in_progress_duration *)

\* the guard of the elif branch
TerminalGuardNoStart(item, from_status_time) ==
    Lower(item.toString) \in TerminalStatuses

TerminalGuard(item, from_status_time) ==
    Lower(item.toString) \in TerminalStatuses /\ from_status_time # None

\* the inner loop: for item in history.get('items', [])
RECURSIVE ScanItems(_, _, _)
ScanItems(items, created, st) ==
    IF items = <<>> THEN st
    ELSE LET item == Head(items) IN
         IF item.field = "status"
         THEN IF Lower(item.toString) = "in progress"
              THEN ScanItems(Tail(items), created,
                             [st EXCEPT !.from_status_time = Some(created)])
              ELSE IF TerminalGuard(item, st.from_status_time)
                   THEN [st EXCEPT !.to_done_time = Some(created)]   \* break
                   ELSE ScanItems(Tail(items), created, st)
         ELSE ScanItems(Tail(items), created, st)

\* the outer loop: for history in changelog.get('histories', [])
RECURSIVE ScanHistories(_, _)
ScanHistories(histories, st) ==
    IF histories = <<>> THEN st
    ELSE LET history == Head(histories)
             st2 == ScanItems(history.items, history.created, st)
         IN IF st2.to_done_time # None THEN st2   \* break
            ELSE ScanHistories(Tail(histories), st2)

get_in_progress_duration(cl) ==
    LET st == ScanHistories(Get(cl, <<>>),
                            [from_status_time |-> None, to_done_time |-> None])
    IN IF st.from_status_time # None /\ st.to_done_time # None
       THEN Some(Hours(Strptime(st.to_done_time[1]),
                       Strptime(st.from_status_time[1])))
       ELSE None

----------------------------------------------------------------------------
(* Records of the tracker and of the repository *)

MkIssue(key, created, resolutiondate, description, comment, cl) ==
    [key |-> key,
     fields |-> [created |-> created, resolutiondate |-> resolutiondate,
                 description |-> description, comment |-> comment,
                 issuetype |-> [name |-> "Bug"],
                 priority |-> [name |-> "Major"]],
     changelog |-> cl]

MkCommit(message, insertions, deletions, files) ==
    [message |-> message,
     stats |-> [total |-> [insertions |-> insertions, deletions |-> deletions],
                files |-> files]]

T0 == Ts(1, 0)

\* an issue of which only the key matters
PlainIssue(key) == MkIssue(key, T0, None, None, None, None)

Min(a, b) == IF a <= b THEN a ELSE b

----------------------------------------------------------------------------
(* JiraClient.fetch_issues *)

\* data['issues'] of the response to startAt = offset, maxResults = max_results
PageOf(offset) ==
    SubSeq(tracker, offset + 1,
           Min(offset + Min(max_results, cap), Len(tracker)))

\* data['total'] of a response
Totals == IF steady THEN {Len(tracker)} ELSE 0..MaxTotal

StopStrict(offset, total) == offset + max_results > total

\* if start_at + self.max_results >= data['total']: break
Stop(offset, total) == offset + max_results >= total

AfterErrorRetry == "fetch"

\* response.raise_for_status() on an error status: the exception leaves
\* fetch_issues and build_and_save
AfterError == "raised"

NextOffsetSkip(offset) == offset + max_results + 1

\* start_at += self.max_results
NextOffset(offset) == offset + max_results

\* lines 30-31, the state fetch_issues starts its loop in
FetchEntry ==
    /\ start_at' = 0
    /\ acc' = <<>>
    /\ requests' = <<>>
    /\ last_total' = None

\* one iteration of the loop whose response has a success status
FetchPage ==
    /\ pc = "fetch"
    /\ \E total \in Totals :
          /\ requests' = Append(requests, [startAt |-> start_at, ok |-> TRUE])
          /\ acc' = acc \o PageOf(start_at)
          /\ last_total' = Some(total)
          /\ IF Stop(start_at, total)
             THEN pc' = "fetched" /\ start_at' = start_at
             ELSE pc' = "fetch" /\ start_at' = NextOffset(start_at)
    /\ UNCHANGED <<tracker, steady, cap, max_results, issues, repo, ci, matches,
                   issue_commit_map, ei, data, skipped_no_commits, dataset,
                   file, run, first_file, changelog, duration>>

\* one iteration whose response has an error status: raise_for_status raises
\* and nothing up to the top of the process catches it
FetchFail ==
    /\ pc = "fetch"
    /\ requests' = Append(requests, [startAt |-> start_at, ok |-> FALSE])
    /\ pc' = AfterError
    /\ UNCHANGED <<tracker, steady, cap, max_results, start_at, acc, last_total,
                   issues, repo, ci, matches, issue_commit_map, ei, data,
                   skipped_no_commits, dataset, file, run, first_file,
                   changelog, duration>>

----------------------------------------------------------------------------
(* GitRepoAnalyzer.map_issues_to_commits *)

\* re.findall(issue_key_pattern, commit.message): the matches, left to right
FindAll(message) == SelectSeq(message, LAMBDA t : t # 0)

StaleMap == issue_commit_map

\* issue_commit_map = {}
NewMap == [k \in {} |-> <<>>]

SetDefaultOnly(m, issue_id, commit) ==
    IF issue_id \in DOMAIN m THEN m ELSE m @@ (issue_id :> <<commit>>)

\* issue_commit_map.setdefault(issue_id, []).append(commit)
SetDefaultAppend(m, issue_id, commit) ==
    IF issue_id \in DOMAIN m
    THEN [m EXCEPT ![issue_id] = Append(@, commit)]
    ELSE m @@ (issue_id :> <<commit>>)

\* build_and_save passes the fetched issues on; map_issues_to_commits starts
MapEntry ==
    /\ pc = "fetched"
    /\ pc' = "map"
    /\ issues' = Some(acc)
    /\ issue_commit_map' = NewMap
    /\ ci' = 0
    /\ matches' = <<>>
    /\ UNCHANGED <<tracker, steady, cap, max_results, start_at, acc, requests,
                   last_total, repo, ei, data, skipped_no_commits, dataset,
                   file, run, first_file, changelog, duration>>

\* the outer loop takes the next commit and matches its message
MapCommit ==
    /\ pc = "map"
    /\ matches = <<>>
    /\ ci < Len(repo)
    /\ ci' = ci + 1
    /\ matches' = FindAll(repo[ci + 1].message)
    /\ UNCHANGED <<pc, tracker, steady, cap, max_results, start_at, acc,
                   requests, last_total, issues, repo, issue_commit_map, ei,
                   data, skipped_no_commits, dataset, file, run, first_file,
                   changelog, duration>>

\* the inner loop appends the commit for the next match
MapMatch ==
    /\ pc = "map"
    /\ matches # <<>>
    /\ issue_commit_map' = SetDefaultAppend(issue_commit_map, Head(matches), ci)
    /\ matches' = Tail(matches)
    /\ UNCHANGED <<pc, tracker, steady, cap, max_results, start_at, acc,
                   requests, last_total, issues, repo, ci, ei, data,
                   skipped_no_commits, dataset, file, run, first_file,
                   changelog, duration>>

\* the commits are exhausted: return issue_commit_map
MapReturn ==
    /\ pc = "map"
    /\ matches = <<>>
    /\ ci = Len(repo)
    /\ pc' = "mapped"
    /\ UNCHANGED <<tracker, steady, cap, max_results, start_at, acc, requests,
                   last_total, issues, repo, ci, matches, issue_commit_map, ei,
                   data, skipped_no_commits, dataset, file, run, first_file,
                   changelog, duration>>

----------------------------------------------------------------------------
(* FeatureExtractor.extract *)

\* self.issue_commit_map.get(key, [])
CommitsOf(key) ==
    IF key \in DOMAIN issue_commit_map THEN issue_commit_map[key] ELSE <<>>

NoCommitsUnmapped(key, commits) == key \notin DOMAIN issue_commit_map

\* if not commits
NoCommits(key, commits) == commits = <<>>

TimeToResolveZero(fields) ==
    IF fields.resolutiondate # None
    THEN Some(Hours(Strptime(fields.resolutiondate[1]), Strptime(fields.created)))
    ELSE Some(0)

\* lines 113-115
TimeToResolve(fields) ==
    LET created == Strptime(fields.created)
        resolved == IF fields.resolutiondate # None
                    THEN Some(Strptime(fields.resolutiondate[1]))
                    ELSE None
    IN IF resolved # None THEN Some(Hours(resolved[1], created)) ELSE None

\* len(fields['description']) if fields['description'] else 0
DescriptionLength(fields) ==
    IF fields.description # None /\ fields.description[1] # ""
    THEN Len(fields.description[1])
    ELSE 0

\* fields['comment']['total'] if fields['comment'] else 0
NumComments(fields) ==
    IF fields.comment # None THEN fields.comment[1].total ELSE 0

RECURSIVE SumInsertions(_)
SumInsertions(commits) ==
    IF commits = <<>> THEN 0
    ELSE repo[Head(commits)].stats.total.insertions + SumInsertions(Tail(commits))

RECURSIVE SumDeletions(_)
SumDeletions(commits) ==
    IF commits = <<>> THEN 0
    ELSE repo[Head(commits)].stats.total.deletions + SumDeletions(Tail(commits))

LinesUpdatedAdded(lines_added, lines_deleted) == lines_added

\* min(lines_added, lines_deleted)
LinesUpdated(lines_added, lines_deleted) == Min(lines_added, lines_deleted)

RECURSIVE SumFiles(_)
SumFiles(commits) ==
    IF commits = <<>> THEN 0
    ELSE Cardinality(repo[Head(commits)].stats.files) + SumFiles(Tail(commits))

\* the dict of lines 128-141
Row(issue, commits) ==
    LET fields == issue.fields
        lines_added == SumInsertions(commits)
        lines_deleted == SumDeletions(commits)
    IN [issue_id |-> issue.key,
        issue_type |-> fields.issuetype.name,
        priority |-> fields.priority.name,
        description_length |-> DescriptionLength(fields),
        num_comments |-> NumComments(fields),
        time_to_resolve_hours |-> TimeToResolve(fields),
        time_in_progress_hours |-> get_in_progress_duration(issue.changelog),
        lines_added |-> lines_added,
        lines_deleted |-> lines_deleted,
        lines_updated_est |-> LinesUpdated(lines_added, lines_deleted),
        total_files_changed |-> SumFiles(commits),
        num_commits |-> Len(commits)]

\* build_and_save constructs the extractor; extract starts
ExtractEntry ==
    /\ pc = "mapped"
    /\ pc' = "extract"
    /\ data' = <<>>
    /\ skipped_no_commits' = 0
    /\ ei' = 1
    /\ UNCHANGED <<tracker, steady, cap, max_results, start_at, acc, requests,
                   last_total, issues, repo, ci, matches, issue_commit_map,
                   dataset, file, run, first_file, changelog, duration>>

\* one iteration of the loop over self.issues
ExtractIssue ==
    /\ pc = "extract"
    /\ ei <= Len(issues[1])
    /\ LET issue == issues[1][ei]
           commits == CommitsOf(issue.key)
       IN IF NoCommits(issue.key, commits)
          THEN /\ skipped_no_commits' = skipped_no_commits + 1
               /\ data' = data
          ELSE /\ data' = Append(data, Row(issue, commits))
               /\ skipped_no_commits' = skipped_no_commits
    /\ ei' = ei + 1
    /\ UNCHANGED <<pc, tracker, steady, cap, max_results, start_at, acc,
                   requests, last_total, issues, repo, ci, matches,
                   issue_commit_map, dataset, file, run, first_file, changelog,
                   duration>>

\* the issues are exhausted: return pd.DataFrame(data)
ExtractReturn ==
    /\ pc = "extract"
    /\ ei > Len(issues[1])
    /\ pc' = "extracted"
    /\ dataset' = Some(data)
    /\ UNCHANGED <<tracker, steady, cap, max_results, start_at, acc, requests,
                   last_total, issues, repo, ci, matches, issue_commit_map, ei,
                   data, skipped_no_commits, file, run, first_file, changelog,
                   duration>>

----------------------------------------------------------------------------
(* EffortDatasetBuilder.build_and_save *)

Columns == <<"issue_id", "issue_type", "priority", "description_length",
             "num_comments", "time_to_resolve_hours", "time_in_progress_hours",
             "lines_added", "lines_deleted", "lines_updated_est",
             "total_files_changed", "num_commits">>

\* one line of the file: the cells of a row in column order; the cell of an
\* absent value is empty
Cells(row) ==
    <<row.issue_id, row.issue_type, row.priority, row.description_length,
      row.num_comments, row.time_to_resolve_hours, row.time_in_progress_hours,
      row.lines_added, row.lines_deleted, row.lines_updated_est,
      row.total_files_changed, row.num_commits>>

\* dataset.to_csv(output_file, index=False); a frame built from no rows has
\* no columns
ToCsv(rows) ==
    [header |-> IF rows = <<>> THEN <<>> ELSE Columns,
     lines |-> [i \in DOMAIN rows |-> Cells(rows[i])]]

\* the file is written, replacing what was there
Save ==
    /\ pc = "extracted"
    /\ pc' = "saved"
    /\ file' = Some(ToCsv(dataset[1]))
    /\ UNCHANGED <<tracker, steady, cap, max_results, start_at, acc, requests,
                   last_total, issues, repo, ci, matches, issue_commit_map, ei,
                   data, skipped_no_commits, dataset, run, first_file,
                   changelog, duration>>

\* build_and_save is called a second time on the same tracker and repository
Rerun ==
    /\ pc = "saved"
    /\ run = 1
    /\ run' = 2
    /\ first_file' = file
    /\ pc' = "fetch"
    /\ FetchEntry
    /\ issues' = None
    /\ dataset' = None
    /\ UNCHANGED <<tracker, steady, cap, max_results, repo, ci, matches,
                   issue_commit_map, ei, data, skipped_no_commits, file,
                   changelog, duration>>

\* get_in_progress_duration is called on a change log
Scan ==
    /\ pc = "scan"
    /\ pc' = "scanned"
    /\ duration' = get_in_progress_duration(changelog)
    /\ UNCHANGED <<tracker, steady, cap, max_results, start_at, acc, requests,
                   last_total, issues, repo, ci, matches, issue_commit_map, ei,
                   data, skipped_no_commits, dataset, file, run, first_file,
                   changelog>>

----------------------------------------------------------------------------
(* Inputs *)

SeqsUpTo(S, n) == UNION {[1..m -> S] : m \in 0..n}

\* the issue numbers that occur
Keys == {1, 2}

\* change logs
StatusNames == {"Open", "In Progress", "IN PROGRESS", "Resolved", "CLOSED"}

ItemKinds ==
    {[field |-> "status", toString |-> s] : s \in StatusNames}
    \cup {[field |-> "assignee", toString |-> "In Progress"]}

BusyItemKinds ==
    {[field |-> "status", toString |-> s] : s \in {"In Progress", "Resolved"}}

\* the tracker returns the histories oldest first
Clock(n) == {t \in [1..n -> 1..MaxT] : \A i \in 1..(n - 1) : t[i] <= t[i + 1]}

\* a change log of n histories: history i was created at hour t[i] and has
\* the items k[i]
LogOf(n, t, k) == Some([i \in 1..n |-> [created |-> Ts(t[i], 0), items |-> k[i]]])

SampleLog ==
    Some(<<[created |-> Ts(1, 0),
            items |-> <<[field |-> "status", toString |-> "In Progress"]>>],
           [created |-> Ts(3, 0),
            items |-> <<[field |-> "status", toString |-> "Resolved"]>>]>>)

\* issues
Resolutions == {None, Some(T0), Some(Ts(4, 1))}

RichIssue == MkIssue(1, T0, Some(Ts(3, 0)), Some("NPE"), Some([total |-> 2]), SampleLog)

IssueKinds ==
    {MkIssue(k, T0, r, None, None, None) : k \in Keys, r \in Resolutions}
    \cup {RichIssue, MkIssue(2, T0, None, Some(""), None, Some(<<>>))}

\* commits
Messages ==
    {<<>>, <<0>>, <<1>>, <<2>>, <<1, 1>>, <<1, 2>>, <<2, 0, 1>>, <<1, 0, 1, 1>>}

SampleRepo ==
    <<MkCommit(<<>>, 0, 0, {}), MkCommit(<<>>, 2, 1, {"a"}),
      MkCommit(<<>>, 0, 3, {"a", "b"})>>

SampleLists == {<<>>, <<2>>, <<3, 3>>, <<1, 2>>, <<2, 3, 1>>}

SampleMaps == UNION {[D -> SampleLists] : D \in SUBSET Keys}

PipelineRepos ==
    {<<>>,
     <<MkCommit(<<1>>, 2, 1, {"a"})>>,
     <<MkCommit(<<1, 2, 1>>, 0, 3, {"a", "b"}), MkCommit(<<0>>, 1, 1, {"c"})>>,
     <<MkCommit(<<2>>, 1, 0, {"a"}), MkCommit(<<0>>, 1, 1, {"c"}),
       MkCommit(<<1, 2>>, 2, 2, {"b"})>>}

PipelineTrackers ==
    {<<>>,
     <<PlainIssue(1)>>,
     <<PlainIssue(2), RichIssue>>,
     <<RichIssue, PlainIssue(1), PlainIssue(2)>>}

FetchCases ==
    {[total |-> n, page |-> p] : n \in 0..MaxTotal, p \in 1..MaxPage}
    \cup {[total |-> 2500, page |-> DefaultMaxResults]}

----------------------------------------------------------------------------
(* Initial states *)

FetchInit == start_at = 0 /\ acc = <<>> /\ requests = <<>> /\ last_total = None

MapInit == ci = 0 /\ matches = <<>> /\ issue_commit_map = [k \in {} |-> <<>>]

ExtractInit == ei = 1 /\ data = <<>> /\ skipped_no_commits = 0 /\ dataset = None

OutInit == file = None /\ run = 1 /\ first_file = None

NoServer == tracker = <<>> /\ steady = TRUE /\ cap = 1 /\ max_results = 1

NoScan == changelog = None /\ duration = None

\* the builder is constructed and build_and_save is called
Init ==
    /\ pc = "fetch"
    /\ tracker \in PipelineTrackers
    /\ repo \in PipelineRepos
    /\ max_results \in 1..MaxPage
    /\ cap = max_results
    /\ steady \in BOOLEAN
    /\ issues = None
    /\ FetchInit /\ MapInit /\ ExtractInit /\ OutInit /\ NoScan

\* a JiraClient is constructed and fetch_issues is called
InitFetch ==
    /\ pc = "fetch"
    /\ \E c \in FetchCases :
          /\ tracker = [i \in 1..c.total |-> PlainIssue(i)]
          /\ max_results = c.page
          /\ cap \in (1..MaxPage) \cup {c.page}
    /\ steady \in BOOLEAN
    /\ repo = <<>>
    /\ issues = None
    /\ FetchInit /\ MapInit /\ ExtractInit /\ OutInit /\ NoScan

\* a GitRepoAnalyzer is constructed and map_issues_to_commits is called
InitMap ==
    /\ pc = "map"
    /\ repo \in SeqsUpTo({MkCommit(m, 1, 1, {"a"}) : m \in Messages}, MaxCommits)
    /\ issues = Some(<<PlainIssue(1), PlainIssue(2)>>)
    /\ NoServer
    /\ FetchInit /\ MapInit /\ ExtractInit /\ OutInit /\ NoScan

\* a FeatureExtractor is constructed and extract is called
InitExtract ==
    /\ pc = "extract"
    /\ repo = SampleRepo
    /\ issues \in {Some(l) : l \in SeqsUpTo(IssueKinds, MaxIssues)}
    /\ issue_commit_map \in SampleMaps
    /\ ci = 0 /\ matches = <<>>
    /\ NoServer
    /\ FetchInit /\ ExtractInit /\ OutInit /\ NoScan

\* get_in_progress_duration is about to be called
InitScan ==
    /\ pc = "scan"
    /\ \/ changelog = None
       \/ \E n \in 0..MaxHist : \E t \in Clock(n) :
             \E k \in [1..n -> {<<i>> : i \in ItemKinds}] :
                changelog = LogOf(n, t, k)
       \/ \E n \in 1..MaxBusyHist : \E t \in Clock(n) :
             \E k \in [1..n -> SeqsUpTo(BusyItemKinds, MaxItems)] :
                changelog = LogOf(n, t, k)
    /\ duration = None
    /\ repo = <<>>
    /\ issues = None
    /\ NoServer
    /\ FetchInit /\ MapInit /\ ExtractInit /\ OutInit

----------------------------------------------------------------------------
(* Specifications *)

Next ==
    \/ FetchPage
    \/ FetchFail
    \/ MapEntry
    \/ MapCommit
    \/ MapMatch
    \/ MapReturn
    \/ ExtractEntry
    \/ ExtractIssue
    \/ ExtractReturn
    \/ Save
    \/ Rerun

Spec == Init /\ [][Next]_vars

NextFetch == FetchPage \/ FetchFail

SpecFetch == InitFetch /\ [][NextFetch]_vars

\* the loop is sequential code: it takes its next step
FairFetch == InitFetch /\ [][NextFetch]_vars /\ WF_vars(NextFetch)

NextMap ==
    \/ MapCommit
    \/ MapMatch
    \/ MapReturn
    \/ ExtractEntry
    \/ ExtractIssue
    \/ ExtractReturn

SpecMap == InitMap /\ [][NextMap]_vars

NextExtract == ExtractIssue \/ ExtractReturn

SpecExtract == InitExtract /\ [][NextExtract]_vars

NextScan == Scan

SpecScan == InitScan /\ [][NextScan]_vars

----------------------------------------------------------------------------
(* Properties of get_in_progress_duration, checked under SpecScan *)

\* the status transitions of a change log in scan order
RECURSIVE StatusItems(_, _)
StatusItems(items, created) ==
    IF items = <<>> THEN <<>>
    ELSE (IF Head(items).field = "status"
          THEN <<[to |-> Lower(Head(items).toString), at |-> created]>>
          ELSE <<>>) \o StatusItems(Tail(items), created)

RECURSIVE TransitionsOf(_)
TransitionsOf(histories) ==
    IF histories = <<>> THEN <<>>
    ELSE StatusItems(Head(histories).items, Head(histories).created)
         \o TransitionsOf(Tail(histories))

Transitions == TransitionsOf(Get(changelog, <<>>))

Least(S) == CHOOSE x \in S : \A y \in S : x <= y

InProgressAt == {i \in DOMAIN Transitions : Transitions[i].to = "in progress"}

TerminalAfter(i) ==
    {j \in DOMAIN Transitions : j > i /\ Transitions[j].to \in TerminalStatuses}

Instant(ts) == ts.hour - ts.tz

\* the duration from the first transition to "in progress" to the first
\* terminal transition after it
FirstPairDuration ==
    IF InProgressAt = {} THEN None
    ELSE IF TerminalAfter(Least(InProgressAt)) = {} THEN None
    ELSE Some(Instant(Transitions[Least(TerminalAfter(Least(InProgressAt)))].at)
              - Instant(Transitions[Least(InProgressAt)].at))

\* C1: the duration runs from the FIRST transition to "in progress" to the
\* first later terminal transition; a second "in progress" before the
\* terminal one does not move the start.
C1_StartIsFirstInProgress ==
    pc = "scanned" => duration = FirstPairDuration

\* C8: a duration is returned only if some transition to "in progress" is
\* followed later by a terminal transition, and then it is the time between
\* such a pair; a terminal transition before any "in progress" is ignored,
\* and without such a pair the value is None, which is not the duration 0.
C8_DurationOnlyForPair ==
    pc = "scanned" =>
        /\ duration # None <=>
              \E i \in InProgressAt : TerminalAfter(i) # {}
        /\ duration # None =>
              \E i \in InProgressAt : \E j \in TerminalAfter(i) :
                 duration = Some(Instant(Transitions[j].at) - Instant(Transitions[i].at))
        /\ duration = None => duration # Some(0)

\* a terminal transition, then "in progress", then nothing terminal: None
C8_Witness ==
    /\ pc = "scanned"
    /\ duration = None
    /\ \E i \in InProgressAt : \E j \in DOMAIN Transitions :
          j < i /\ Transitions[j].to \in TerminalStatuses

----------------------------------------------------------------------------
(* Properties of extract, checked under SpecExtract *)

HasMappedCommit(issue) ==
    /\ issue.key \in DOMAIN issue_commit_map
    /\ Len(issue_commit_map[issue.key]) >= 1

\* the issues among the first n that have a mapped commit
Kept(n) == SelectSeq(SubSeq(issues[1], 1, n), HasMappedCommit)

InExtract == pc \in {"extract", "extracted"}

\* C2: a row is emitted for an issue iff its key has at least one mapped
\* commit; after every iteration skipped_no_commits + rows = issues
\* processed, and at the end = issues fetched.
C2_RowIffMappedCommit ==
    InExtract =>
        /\ skipped_no_commits + Len(data) = ei - 1
        /\ Len(data) = Len(Kept(ei - 1))
        /\ \A i \in DOMAIN data : data[i].issue_id = Kept(ei - 1)[i].key
        /\ pc = "extracted" =>
              /\ dataset = Some(data)
              /\ skipped_no_commits + Len(data) = Len(issues[1])
              /\ Len(data) <= Len(issues[1])

\* an issue whose key is mapped to an empty list was skipped, another emitted
C2_Witness ==
    /\ pc = "extracted"
    /\ Len(data) >= 1
    /\ \E i \in DOMAIN issues[1] :
          /\ issues[1][i].key \in DOMAIN issue_commit_map
          /\ issue_commit_map[issues[1][i].key] = <<>>

Occurrences(c, commits) == Cardinality({i \in DOMAIN commits : commits[i] = c})

RECURSIVE WeightedSum(_, _, _)
WeightedSum(C, commits, stat) ==
    IF C = {} THEN 0
    ELSE LET c == CHOOSE x \in C : TRUE
         IN Occurrences(c, commits) * stat[c] + WeightedSum(C \ {c}, commits, stat)

InsertionsOf == [c \in DOMAIN repo |-> repo[c].stats.total.insertions]
DeletionsOf == [c \in DOMAIN repo |-> repo[c].stats.total.deletions]

\* C5: lines_added and lines_deleted are the insertions and deletions of the
\* mapped commits, each counted once per occurrence in the list, and
\* lines_updated_est is the smaller of the two, also when one is zero.
C5_ChurnSums ==
    InExtract =>
        \A i \in DOMAIN data :
           LET row == data[i]
               commits == issue_commit_map[row.issue_id]
           IN /\ row.lines_added = WeightedSum(DOMAIN repo, commits, InsertionsOf)
              /\ row.lines_deleted = WeightedSum(DOMAIN repo, commits, DeletionsOf)
              /\ row.lines_updated_est <= row.lines_added
              /\ row.lines_updated_est <= row.lines_deleted
              /\ row.lines_updated_est \in {row.lines_added, row.lines_deleted}

\* a row of a commit listed twice, and one with more insertions than deletions
C5_Witness ==
    /\ pc = "extracted"
    /\ \E i \in DOMAIN data :
          /\ data[i].num_commits = 2
          /\ Occurrences(3, issue_commit_map[data[i].issue_id]) = 2
          /\ data[i].lines_added = 0
          /\ data[i].lines_updated_est = 0
    /\ \E i \in DOMAIN data : data[i].lines_added > data[i].lines_deleted

\* C6: time_to_resolve_hours is None exactly when resolutiondate is absent,
\* and otherwise the hours from created to resolved.
C6_TimeToResolve ==
    InExtract =>
        \A i \in DOMAIN data :
           LET fields == Kept(ei - 1)[i].fields
           IN /\ data[i].time_to_resolve_hours = None <=> fields.resolutiondate = None
              /\ fields.resolutiondate # None =>
                    data[i].time_to_resolve_hours =
                       Some(Instant(fields.resolutiondate[1]) - Instant(fields.created))

\* a row of an unresolved issue next to a row resolved after zero hours
C6_Witness ==
    /\ pc = "extracted"
    /\ \E i \in DOMAIN data : data[i].time_to_resolve_hours = None
    /\ \E i \in DOMAIN data : data[i].time_to_resolve_hours = Some(0)

----------------------------------------------------------------------------
(* Properties of fetch_issues, checked under SpecFetch and FairFetch *)

Offsets == [i \in DOMAIN requests |-> requests[i].startAt]

AllOk == \A i \in DOMAIN requests : requests[i].ok

\* the server reports one total and fills every page it is asked for
FullPages == steady /\ cap >= max_results

\* the pages a result of n issues takes
PagesFor(n) == IF n = 0 THEN 1 ELSE (n + max_results - 1) \div max_results

\* C3: against a server with a constant total and full pages, the offsets
\* requested are 0, P, 2P, ... without repeat or gap and the issues
\* accumulated are all the issues; for total 2500 and P = 1000 these are the
\* three offsets 0, 1000, 2000 and 2500 issues.
C3_PagesInOrder ==
    FullPages /\ AllOk =>
        /\ \A i \in DOMAIN requests : Offsets[i] = (i - 1) * max_results
        /\ pc = "fetched" =>
              /\ Len(requests) = PagesFor(Len(tracker))
              /\ Len(acc) = Len(tracker)
              /\ acc = tracker
        /\ pc = "fetched" /\ Len(tracker) = 2500 /\ max_results = 1000 =>
              /\ Offsets = <<0, 1000, 2000>>
              /\ Len(acc) = 2500

\* the run of the example
C3_Witness ==
    /\ pc = "fetched"
    /\ FullPages
    /\ Len(tracker) = 2500
    /\ max_results = 1000
    /\ Offsets = <<0, 1000, 2000>>
    /\ Len(acc) = 2500

\* C10: the loop sends at least one request, decides on the total of the
\* response it has just read, stops as soon as offset + page size >= that
\* total and otherwise moves the offset up by exactly the page size; with a
\* bounded total it terminates.
C10_LoopTerminates ==
    /\ [](pc # "fetch" => Len(requests) >= 1)
    /\ [][pc = "fetch" /\ requests'[Len(requests')].ok =>
             /\ last_total' # None
             /\ IF start_at + max_results >= last_total'[1]
                THEN pc' = "fetched" /\ start_at' = start_at
                ELSE pc' = "fetch" /\ start_at' = start_at + max_results]_vars
    /\ [][start_at' >= start_at]_vars
    /\ <>(pc # "fetch")

\* a loop that stopped on a total other than the one of its first response
C10_Witness ==
    /\ pc = "fetched"
    /\ ~steady
    /\ Len(requests) >= 2
    /\ start_at + max_results >= last_total[1]

----------------------------------------------------------------------------
(* Properties of map_issues_to_commits, checked under SpecMap *)

CountKey(tokens, k) == Cardinality({i \in DOMAIN tokens : tokens[i] = k})

\* how often commit c has been appended for key k so far
Appended(k, c) ==
    IF c < ci THEN CountKey(repo[c].message, k)
    ELSE IF c = ci THEN CountKey(repo[c].message, k) - CountKey(matches, k)
    ELSE 0

Copies(c, n) == [i \in 1..n |-> c]

RECURSIVE ListFrom(_, _)
ListFrom(k, c) ==
    IF c > Len(repo) THEN <<>>
    ELSE Copies(c, Appended(k, c)) \o ListFrom(k, c + 1)

InOrAfterMap == pc \in {"map", "mapped", "extract", "extracted"}

\* C9: after every step of the scan a key of the map has a non-empty list
\* and a key without a match has no entry; a list holds its commits in
\* traversal order, a commit once per match of the key in its message, and
\* num_commits counts it as often.
C9_MapLists ==
    InOrAfterMap =>
        /\ DOMAIN issue_commit_map \subseteq Keys
        /\ \A k \in Keys :
              /\ k \in DOMAIN issue_commit_map <=> ListFrom(k, 1) # <<>>
              /\ k \in DOMAIN issue_commit_map =>
                    /\ issue_commit_map[k] # <<>>
                    /\ issue_commit_map[k] = ListFrom(k, 1)
                    /\ \A i \in 1..(Len(issue_commit_map[k]) - 1) :
                          issue_commit_map[k][i] <= issue_commit_map[k][i + 1]
        /\ pc \in {"extract", "extracted"} =>
              \A i \in DOMAIN data :
                 data[i].num_commits = Len(ListFrom(data[i].issue_id, 1))

\* a commit whose message names a key twice is twice in the list and counted
\* twice, while another key has no entry
C9_Witness ==
    /\ pc = "extracted"
    /\ \E i \in DOMAIN data :
          /\ data[i].num_commits = 2
          /\ issue_commit_map[data[i].issue_id] = <<1, 1>>
    /\ \E k \in Keys : k \notin DOMAIN issue_commit_map

----------------------------------------------------------------------------
(* Properties of build_and_save, checked under Spec *)

Failed == \E i \in DOMAIN requests : ~requests[i].ok

\* C4: a page request with an error status ends the run there: it is the
\* last request, fetch_issues hands no issues to build_and_save, and no
\* mapping, extraction or write follows.
C4_ErrorAborts ==
    /\ [](Failed =>
             /\ pc = "raised"
             /\ \A i \in DOMAIN requests : ~requests[i].ok => i = Len(requests)
             /\ issues = None
             /\ dataset = None
             /\ file = first_file)
    /\ [][~Failed]_vars

\* the second page failed after the first had delivered issues
C4_Witness ==
    /\ Failed
    /\ Len(requests) = 2
    /\ acc # <<>>
    /\ pc = "raised"

\* C7: a second run against the same tracker snapshot and the same commits
\* writes the file the first run wrote.
C7_SecondRunSame ==
    run = 2 /\ pc = "saved" /\ steady => file = first_file

\* both runs wrote a file with rows
C7_Witness ==
    /\ run = 2
    /\ pc = "saved"
    /\ steady
    /\ first_file # None
    /\ Len(file[1].lines) >= 2

====
